---- MODULE Spec2Model ----
(***************************************************************************)
(* A model of dice_roll.py: the notation parser (main's token loop,        *)
(* dice.__init__, dice.add_spec), the validator (dice.sanitize), the roll  *)
(* engine (dice.roll, dice.roll_n) and the trial driver (main).            *)
(*                                                                         *)
(* A notation token is a sequence of one-character strings, so that        *)
(* str.find, str.split, str.isdigit and int() are computed on characters.  *)
(***************************************************************************)
EXTENDS Integers, Sequences, FiniteSets, TLC

VARIABLES
    freqtest,   \* args.freqtest
    ntests,     \* args.ntests: <<>> is None, <<n>> is the int n
    args_rolls, \* args.rolls, the token sequence
    n_tests,    \* main's n_tests
    i_spec,     \* position of main's "for spec in args.rolls" (1-based)
    dice_arr,   \* main's dice_arr
    i_san,      \* position of main's "for d in dice_arr: d.sanitize()"
    pc,         \* where main is
    err,        \* the kind of the exception that ended the run, or "none"
    branch,     \* which arm of "if n_tests == N_FREQTEST" runs
    i_test,     \* number of completed iterations of "for i_test in range(n_tests)"
    i_die,      \* position in the dice of the running trial (1-based)
    copy_arr,   \* the deepcopy(dice_arr) of the running explicit trial
    self,       \* the dice object roll_n is running on
    rolls,      \* roll_n's list of results so far
    x,          \* the last value drawn in dice.roll (0 before any draw)
    depth,      \* recursion depth of dice.roll for the die being rolled
    row,        \* totals of the running explicit trial, one per dice
    results,    \* the rows printed so far, "Roll i | ..."
    sum_arr,    \* the frequentist branch's sum_arr
    average,    \* the printed averages, as <<sum, n_tests>> pairs
    drawn       \* TRUE once random.choice has been called

vars == <<freqtest, ntests, args_rolls, n_tests, i_spec, dice_arr, i_san, pc,
          err, branch, i_test, i_die, copy_arr, self, rolls, x, depth, row,
          results, sum_arr, average, drawn>>

rollVars  == <<branch, i_test, i_die, copy_arr, self, rolls, x, depth, row,
               results, sum_arr, average, drawn>>
argVars   == <<freqtest, ntests, args_rolls>>

-----------------------------------------------------------------------------
(* Bounds of the model.                                                    *)

MaxTokens == 3        \* longest token sequence given on the command line
MaxTrials == 2        \* trials explored per run, and largest small --ntests
MaxFaces == 4         \* most faces of a die, for the drop runs
MaxRolls == 4         \* most dice of a group, for the drop runs
MaxDrop == 2          \* largest drop count, for the drop runs
MaxRerollFaces == 3   \* most faces of a die, for the reroll runs
MaxRerollRolls == 3   \* most dice of a group, for the reroll runs
MaxRerolls == 2       \* largest finite reroll budget, for the reroll runs
MaxThreshold == 2     \* largest reroll threshold, for the reroll runs
MaxDepth == 3         \* deepest recursion of dice.roll explored

-----------------------------------------------------------------------------
(* Constants of the program.                                               *)

INSTRCTN_ARR == <<"d", "r", "t", "l", "h", "A", "D", "E">>
SPEC_ARR == <<"r", "t", "l", "h">>
SPEC_DEFS == [s \in {"r", "t", "l", "h"} |-> 0]
N_FREQTEST == 100000

-----------------------------------------------------------------------------
(* Python's string operations, on sequences of characters.                 *)

DIGITS == <<"0", "1", "2", "3", "4", "5", "6", "7", "8", "9">>

Range(s) == {s[k] : k \in 1..Len(s)}

\* bool(spec.find(c) + 1): whether the character occurs in the string.
Find(spec, c) == \E k \in 1..Len(spec) : spec[k] = c

FirstIndex(s, c) == CHOOSE k \in 1..Len(s) : s[k] = c /\ \A j \in 1..(k - 1) : s[j] # c

\* str.split(c) for a one-character separator.
RECURSIVE Split(_, _)
Split(s, c) ==
    IF ~Find(s, c) THEN <<s>>
    ELSE LET k == FirstIndex(s, c)
         IN  <<SubSeq(s, 1, k - 1)>> \o Split(SubSeq(s, k + 1, Len(s)), c)

\* str.isdigit: non-empty and every character a digit.
IsDigit(s) == Len(s) > 0 /\ \A k \in 1..Len(s) : s[k] \in Range(DIGITS)

DigitVal(c) == (CHOOSE k \in 1..Len(DIGITS) : DIGITS[k] = c) - 1

\* int(s) for a string of digits.
RECURSIVE ToInt(_)
ToInt(s) ==
    IF Len(s) = 0 THEN 0
    ELSE 10 * ToInt(SubSeq(s, 1, Len(s) - 1)) + DigitVal(s[Len(s)])

\* sum() of a list of booleans.
RECURSIVE SumBool(_)
SumBool(b) ==
    IF Len(b) = 0 THEN 0
    ELSE (IF b[1] THEN 1 ELSE 0) + SumBool(Tail(b))

\* any(b[lo:hi]) with Python's 0-based, end-exclusive slice.
AnySlice(b, lo, hi) == \E k \in (lo + 1)..hi : k <= Len(b) /\ b[k]

-----------------------------------------------------------------------------
(* class dice.                                                             *)

NoDice == [n_faces |-> 0, n_rolls |-> 0, n_rerolls |-> 0, reroll_threshold |-> 0,
           n_lowest_dropped |-> 0, n_highest_dropped |-> 0]

\* dice.__init__: the new object and the error raised, if any.
DiceInit(roll) ==
    LET parts  == Split(roll, "d")
        parts1 == IF parts[1] = <<>> THEN [parts EXCEPT ![1] = <<"1">>] ELSE parts
    IN  IF Len(parts1) # 2 \/ ~(\A k \in 1..Len(parts1) : IsDigit(parts1[k]))
        THEN [d |-> NoDice, err |-> "FormatError"]
        ELSE [d |-> [n_faces           |-> ToInt(parts1[2]),
                     n_rolls           |-> ToInt(parts1[1]),
                     n_rerolls         |-> SPEC_DEFS["r"],
                     reroll_threshold  |-> SPEC_DEFS["t"],
                     n_lowest_dropped  |-> SPEC_DEFS["l"],
                     n_highest_dropped |-> SPEC_DEFS["h"]],
              err |-> "none"]

\* dice.get
Get(d, s) ==
    CASE s = "r" -> d.n_rerolls
      [] s = "t" -> d.reroll_threshold
      [] s = "l" -> d.n_lowest_dropped
      [] s = "h" -> d.n_highest_dropped

\* dice.set
Set(d, s, v) ==
    CASE s = "r" /\ v = 0 -> [d EXCEPT !.n_rerolls = -1]
      [] s = "r" /\ v # 0 -> [d EXCEPT !.n_rerolls = v]
      [] s = "t" -> [d EXCEPT !.reroll_threshold = v]
      [] s = "l" -> [d EXCEPT !.n_lowest_dropped = v]
      [] s = "h" -> [d EXCEPT !.n_highest_dropped = v]

\* The test of add_spec that a spec is already set.
AlreadySet(d, val) == Get(d, val) # SPEC_DEFS[val]

\* dice.add_spec: the object afterwards and the error raised, if any.
AddSpec(d, spec) ==
    LET val_arr == [k \in 1..Len(SPEC_ARR) |-> Find(spec, SPEC_ARR[k])]
    IN  IF SumBool(val_arr) # 1 THEN [d |-> d, err |-> "FormatError"]
        ELSE LET val == SPEC_ARR[CHOOSE k \in 1..Len(SPEC_ARR) : val_arr[k]]
                 spec_arr == Split(spec, val)
             IN  IF AlreadySet(d, val)
                 THEN [d |-> d, err |-> "DuplicateModifierError"]
                 ELSE IF Len(spec_arr) # 2 \/ ~IsDigit(spec_arr[2])
                 THEN [d |-> d, err |-> "FormatError"]
                 ELSE [d |-> Set(d, val, ToInt(spec_arr[2])), err |-> "none"]

\* The checks of dice.sanitize that raise, each as the code writes it.
BadRollCount(d) == d.n_rolls <= 0
BadRerollPair(d) == (d.n_rerolls # 0) # (d.reroll_threshold # 0)
\* A threshold check that lets the threshold equal n_faces.
BadThresholdStrict(d) == d.reroll_threshold > d.n_faces
BadThreshold(d) == d.reroll_threshold >= d.n_faces
\* A drop check that lets one die more be dropped than is rolled.
BadDropsOver(d) == d.n_lowest_dropped + d.n_highest_dropped > d.n_rolls + 1
\* A drop check that tests each count alone.
BadDropsEach(d) == d.n_lowest_dropped > d.n_rolls \/ d.n_highest_dropped > d.n_rolls
BadDrops(d) == d.n_lowest_dropped + d.n_highest_dropped > d.n_rolls

\* dice.sanitize: the error raised, or "none".
Sanitize(d) ==
    IF BadRollCount(d) \/ BadRerollPair(d) \/ BadThreshold(d) \/ BadDrops(d)
    THEN "ValidationError"
    ELSE "none"

-----------------------------------------------------------------------------
(* The command lines explored.                                             *)

DieCounts == {<<>>, <<"0">>, <<"1">>, <<"2">>, <<"3">>}
DieFaces == {"2", "3"}
SpecValues == {"0", "1", "2"}

DieTokens == {c \o <<"d", f>> : c \in DieCounts \ {<<>>, <<"0">>}, f \in DieFaces}
             \cup {<<"d", "2">>, <<"0", "d", "2">>, <<"1", "d", "0">>}
SpecTokens == {<<s, v>> : s \in Range(SPEC_ARR), v \in SpecValues}
ShorthandTokens == {<<"A">>, <<"D">>, <<"E">>}
OddTokens == {<<"x">>, <<"r">>, <<"r", "t", "1">>, <<"5", "r", "2">>, <<"x", "A">>,
              <<"1", "d", "x">>}
Tokens == DieTokens \cup SpecTokens \cup ShorthandTokens \cup OddTokens

\* The tokens of the runs that go on to roll.
DriverTokens == {<<"d", "2">>, <<"r", "1">>, <<"t", "1">>, <<"h", "2">>,
                 <<"A">>, <<"D">>, <<"E">>, <<"x">>}

SeqsUpTo(S, n) == UNION {[1..k -> S] : k \in 1..n}

-----------------------------------------------------------------------------
(* main: the token loop (lines 162-186).                                   *)

spec == args_rolls[i_spec]
instruction == [k \in 1..Len(INSTRCTN_ARR) |-> Find(spec, INSTRCTN_ARR[k])]
\* The index of the first dice instead of the last one.
Oldest == IF dice_arr = <<>> THEN 0 ELSE 1
Last == Len(dice_arr)

Raise(kind) ==
    /\ pc' = "error"
    /\ err' = kind
    /\ UNCHANGED <<i_spec, i_san>>

NextSpec ==
    /\ i_spec' = i_spec + 1
    /\ pc' = IF i_spec + 1 > Len(args_rolls) THEN "sanitize" ELSE "parse"
    /\ UNCHANGED <<err, i_san>>

\* The outcome of a call that may raise: store the object, then go on or stop.
Outcome(r) ==
    /\ dice_arr' = [dice_arr EXCEPT ![Last] = r.d]
    /\ IF r.err = "none" THEN NextSpec ELSE Raise(r.err)

\* n_rolls of the three shorthands, and the spec each adds.
\* Every shorthand rolling two dice.
ShorthandRollsTwo(k) == 2
ShorthandRolls(k) == IF k = 8 THEN 3 ELSE 2
ShorthandSpec(k) ==
    CASE k = 6 -> <<"l", "1">>
      [] k = 7 -> <<"h", "1">>
      [] k = 8 -> <<"l", "2">>

\* "dice_arr[-1].n_rolls = n; dice_arr[-1].add_spec(s)" for shorthand k.
Shorthand(d, k) == AddSpec([d EXCEPT !.n_rolls = ShorthandRolls(k)], ShorthandSpec(k))

\* A test that refuses the shorthand on a single roll.
ShorthandRejectedOne == AnySlice(instruction, 5, 7) /\ dice_arr[Last].n_rolls = 1
\* The guard of line 176: A or D on a dice whose n_rolls is not 1.
ShorthandRejected == AnySlice(instruction, 5, 7) /\ dice_arr[Last].n_rolls # 1

InParse == pc = "parse" /\ i_spec <= Len(args_rolls)

ParseMalformed ==
    /\ InParse
    /\ SumBool(instruction) # 1
    /\ Raise("FormatError")
    /\ UNCHANGED <<dice_arr, n_tests, argVars, rollVars>>

ParseDie ==
    /\ InParse
    /\ SumBool(instruction) = 1
    /\ instruction[1]
    /\ LET r == DiceInit(spec)
       IN  IF r.err = "none"
           THEN dice_arr' = Append(dice_arr, r.d) /\ NextSpec
           ELSE dice_arr' = dice_arr /\ Raise(r.err)
    /\ UNCHANGED <<n_tests, argVars, rollVars>>

\* A branch that skips the token instead of raising.
ParseNoDiceSkip ==
    /\ InParse
    /\ SumBool(instruction) = 1
    /\ ~instruction[1]
    /\ Len(dice_arr) = 0
    /\ NextSpec
    /\ UNCHANGED <<dice_arr, n_tests, argVars, rollVars>>

ParseNoDice ==
    /\ InParse
    /\ SumBool(instruction) = 1
    /\ ~instruction[1]
    /\ Len(dice_arr) = 0
    /\ Raise("SequenceError")
    /\ UNCHANGED <<dice_arr, n_tests, argVars, rollVars>>

ParseSpec ==
    /\ InParse
    /\ SumBool(instruction) = 1
    /\ ~instruction[1]
    /\ Len(dice_arr) # 0
    /\ AnySlice(instruction, 1, 5)
    /\ Outcome(AddSpec(dice_arr[Last], spec))
    /\ UNCHANGED <<n_tests, argVars, rollVars>>

ParseShorthandRejected ==
    /\ InParse
    /\ SumBool(instruction) = 1
    /\ ~instruction[1]
    /\ Len(dice_arr) # 0
    /\ ~AnySlice(instruction, 1, 5)
    /\ ShorthandRejected
    /\ Raise("SequenceError")
    /\ UNCHANGED <<dice_arr, n_tests, argVars, rollVars>>

ParseShorthand(k) ==
    /\ SumBool(instruction) = 1
    /\ ~instruction[1]
    /\ Len(dice_arr) # 0
    /\ ~AnySlice(instruction, 1, 5)
    /\ ~ShorthandRejected
    /\ instruction[k]
    /\ Outcome(Shorthand(dice_arr[Last], k))
    /\ UNCHANGED <<n_tests, argVars, rollVars>>

ParseA == InParse /\ ParseShorthand(6)
ParseD == InParse /\ ParseShorthand(7)
ParseE == InParse /\ ParseShorthand(8)

-----------------------------------------------------------------------------
(* main: the sanitize loop (lines 188-190).                                *)

SanitizeDie ==
    /\ pc = "sanitize"
    /\ i_san <= Len(dice_arr)
    /\ LET e == Sanitize(dice_arr[i_san])
       IN  IF e = "none"
           THEN /\ i_san' = i_san + 1
                /\ pc' = IF i_san + 1 > Len(dice_arr) THEN "header" ELSE "sanitize"
                /\ UNCHANGED err
           ELSE /\ pc' = "error"
                /\ err' = e
                /\ UNCHANGED i_san
    /\ UNCHANGED <<i_spec, dice_arr, n_tests, argVars, rollVars>>

-----------------------------------------------------------------------------
(* The parser and validator alone, on every command line of Tokens.        *)

InitRollVars ==
    /\ branch = "none"
    /\ i_test = 0
    /\ i_die = 0
    /\ copy_arr = <<>>
    /\ self = NoDice
    /\ rolls = <<>>
    /\ x = 0
    /\ depth = 0
    /\ row = <<>>
    /\ results = <<>>
    /\ sum_arr = <<>>
    /\ average = <<>>
    /\ drawn = FALSE

InitParse ==
    /\ freqtest = FALSE
    /\ ntests = <<>>
    /\ args_rolls \in SeqsUpTo(Tokens, MaxTokens)
    /\ n_tests = 1
    /\ i_spec = 1
    /\ dice_arr = <<>>
    /\ i_san = 1
    /\ pc = "parse"
    /\ err = "none"
    /\ InitRollVars

NextParse ==
    \/ ParseMalformed
    \/ ParseDie
    \/ ParseNoDice
    \/ ParseSpec
    \/ ParseShorthandRejected
    \/ ParseA
    \/ ParseD
    \/ ParseE
    \/ SanitizeDie

SpecParse == InitParse /\ [][NextParse]_vars

-----------------------------------------------------------------------------
(* dice.roll and dice.roll_n.                                              *)

\* The values random.choice(range(n_faces)) + 1 can give.
DrawsNoShift(n_faces) == 0..(n_faces - 1)
Draws(n_faces) == {k + 1 : k \in 0..(n_faces - 1)}

\* A test that never looks at the budget.
RerollsAnyBudget(d, v) == v <= d.reroll_threshold
\* A test that still rolls again when the budget has reached 0.
RerollsOffByOne(d, v) == v <= d.reroll_threshold /\ d.n_rerolls >= 0
\* A test that rolls again only while a positive budget is left.
RerollsWhileLeft(d, v) == v <= d.reroll_threshold /\ d.n_rerolls > 0
\* The test of dice.roll that the drawn value is rolled again.
Rerolls(d, v) == v <= d.reroll_threshold /\ d.n_rerolls # 0

Min(s) == CHOOSE v \in Range(s) : \A w \in Range(s) : v <= w
Max(s) == CHOOSE v \in Range(s) : \A w \in Range(s) : v >= w

\* list.remove(v): the list without the first occurrence of v.
Remove(s, v) ==
    LET k == FirstIndex(s, v)
    IN  SubSeq(s, 1, k - 1) \o SubSeq(s, k + 1, Len(s))

\* "for _ in range(n): rolls.remove(min(rolls))"; min() of an empty list raises.
RECURSIVE DropLowest(_, _)
DropLowest(r, n) ==
    IF n <= 0 \/ ~r.ok THEN r
    ELSE IF Len(r.rolls) = 0 THEN [ok |-> FALSE, rolls |-> <<>>]
    ELSE DropLowest([ok |-> TRUE, rolls |-> Remove(r.rolls, Min(r.rolls))], n - 1)

\* A second loop that removes the minimum again.
DropHighestAsLowest(r, n) == DropLowest(r, n)

\* "for _ in range(n): rolls.remove(max(rolls))"
RECURSIVE DropHighest(_, _)
DropHighest(r, n) ==
    IF n <= 0 \/ ~r.ok THEN r
    ELSE IF Len(r.rolls) = 0 THEN [ok |-> FALSE, rolls |-> <<>>]
    ELSE DropHighest([ok |-> TRUE, rolls |-> Remove(r.rolls, Max(r.rolls))], n - 1)

RECURSIVE Sum(_)
Sum(s) == IF Len(s) = 0 THEN 0 ELSE s[1] + Sum(Tail(s))

\* roll_n after the dice are rolled: the drops, then the sum.
RollNTotal(d, rs) ==
    LET kept == DropHighest(DropLowest([ok |-> TRUE, rolls |-> rs], d.n_lowest_dropped),
                            d.n_highest_dropped)
    IN  [ok |-> kept.ok, rolls |-> kept.rolls, total |-> Sum(kept.rolls)]

-----------------------------------------------------------------------------
(* main: the arguments (lines 154-159) and the trials (lines 192-221).     *)

\* A test that takes --ntests 0 for "not given".
ConflictTruthy(f, n) == f /\ n # <<>> /\ n[1] # 0
\* The test of line 155: --freqtest together with --ntests.
Conflict(f, n) == f /\ n # <<>>

ProcessArgs ==
    /\ pc = "args"
    /\ IF Conflict(freqtest, ntests)
       THEN /\ pc' = "error"
            /\ err' = "ConfigConflictError"
            /\ UNCHANGED n_tests
       ELSE /\ n_tests' = IF freqtest THEN N_FREQTEST
                          ELSE IF ntests # <<>> THEN ntests[1] ELSE 1
            /\ pc' = "parse"
            /\ UNCHANGED err
    /\ UNCHANGED <<i_spec, dice_arr, i_san, argVars, rollVars>>

\* The test of line 198 that chooses the frequentist arm.
FreqArm(n) == n = N_FREQTEST

Header ==
    /\ pc = "header"
    /\ branch' = IF FreqArm(n_tests) THEN "freq" ELSE "explicit"
    /\ sum_arr' = IF FreqArm(n_tests) THEN [k \in 1..Len(dice_arr) |-> 0] ELSE <<>>
    /\ pc' = "trial"
    /\ UNCHANGED <<i_spec, dice_arr, i_san, err, n_tests, argVars, i_test, i_die,
                   copy_arr, self, rolls, x, depth, row, results, average, drawn>>

\* The list an explicit trial rolls: a stale list would be reused across trials.
TrialCopyOnce(arr, old) == IF old = <<>> THEN arr ELSE old
TrialCopy(arr, old) == arr

MoreTrials == i_test < n_tests /\ i_test < MaxTrials

TrialExplicit ==
    /\ pc = "trial"
    /\ branch = "explicit"
    /\ MoreTrials
    /\ copy_arr' = TrialCopy(dice_arr, copy_arr)
    /\ row' = <<>>
    /\ i_die' = 1
    /\ pc' = "die"
    /\ UNCHANGED <<i_spec, dice_arr, i_san, err, n_tests, argVars, branch, i_test,
                   self, rolls, x, depth, results, sum_arr, average, drawn>>

TrialFreq ==
    /\ pc = "trial"
    /\ branch = "freq"
    /\ MoreTrials
    /\ i_die' = 1
    /\ pc' = "die"
    /\ UNCHANGED <<i_spec, dice_arr, i_san, err, n_tests, argVars, branch, i_test,
                   copy_arr, self, rolls, x, depth, row, results, sum_arr, average,
                   drawn>>

\* Entering roll_n on the object d.
EnterRollN(d) ==
    /\ self' = d
    /\ rolls' = <<>>
    /\ depth' = 0
    /\ pc' = IF d.n_rolls > 0 THEN "roll" ELSE "drop"
    /\ UNCHANGED <<i_spec, dice_arr, i_san, err, n_tests, argVars, branch, i_test,
                   i_die, copy_arr, x, row, results, sum_arr, average, drawn>>

DieExplicit ==
    /\ pc = "die"
    /\ branch = "explicit"
    /\ EnterRollN(copy_arr[i_die])

DieFreq ==
    /\ pc = "die"
    /\ branch = "freq"
    /\ EnterRollN(dice_arr[i_die])

\* One call of dice.roll: a draw, then either the recursive call or the return
\* of the value through every level to roll_n's list.
Roll ==
    /\ pc = "roll"
    /\ IF self.n_faces <= 0
       THEN /\ pc' = "error"
            /\ err' = "IndexError"
            /\ UNCHANGED <<self, rolls, x, depth, drawn>>
       ELSE \E v \in Draws(self.n_faces) :
            /\ x' = v
            /\ drawn' = TRUE
            /\ UNCHANGED err
            /\ IF Rerolls(self, v)
               THEN /\ depth < MaxDepth
                    /\ self' = [self EXCEPT !.n_rerolls = @ - 1]
                    /\ depth' = depth + 1
                    /\ UNCHANGED <<rolls, pc>>
               ELSE /\ rolls' = Append(rolls, v)
                    /\ depth' = 0
                    /\ pc' = IF Len(rolls) + 1 >= self.n_rolls THEN "drop" ELSE "roll"
                    /\ UNCHANGED self
    /\ UNCHANGED <<i_spec, dice_arr, i_san, n_tests, argVars, branch, i_test, i_die,
                   copy_arr, row, results, sum_arr, average>>

LastDie == i_die >= Len(dice_arr)

\* The rest of roll_n, and what main does with the total it returns.
RollNReturn ==
    /\ pc = "drop"
    /\ LET r == RollNTotal(self, rolls)
       IN  IF ~r.ok
           THEN /\ pc' = "error"
                /\ err' = "EmptyListError"
                /\ rolls' = <<>>
                /\ UNCHANGED <<i_test, i_die, copy_arr, row, results, sum_arr>>
           ELSE /\ UNCHANGED err
                /\ rolls' = r.rolls
                /\ pc' = IF LastDie THEN "trial" ELSE "die"
                /\ i_die' = IF LastDie THEN i_die ELSE i_die + 1
                /\ i_test' = IF LastDie THEN i_test + 1 ELSE i_test
                /\ IF branch = "explicit"
                   THEN /\ copy_arr' = [copy_arr EXCEPT ![i_die] = self]
                        /\ row' = Append(row, r.total)
                        /\ results' = IF LastDie THEN Append(results, row') ELSE results
                        /\ UNCHANGED sum_arr
                   ELSE /\ sum_arr' = [sum_arr EXCEPT ![i_die] = @ + r.total]
                        /\ UNCHANGED <<copy_arr, row, results>>
    /\ UNCHANGED <<i_spec, dice_arr, i_san, n_tests, argVars, branch, self, x,
                   depth, average, drawn>>

Finish ==
    /\ pc = "trial"
    /\ i_test >= n_tests
    /\ average' = IF branch = "freq"
                  THEN [k \in 1..Len(sum_arr) |-> <<sum_arr[k], n_tests>>]
                  ELSE average
    /\ pc' = "done"
    /\ UNCHANGED <<i_spec, dice_arr, i_san, err, n_tests, argVars, branch, i_test,
                   i_die, copy_arr, self, rolls, x, depth, row, results, sum_arr, drawn>>

-----------------------------------------------------------------------------
(* The whole program, on the command lines of DriverTokens.                *)

TestCounts == (0..MaxTrials) \cup {N_FREQTEST}

Init ==
    /\ freqtest \in BOOLEAN
    /\ ntests \in {<<>>} \cup {<<n>> : n \in TestCounts}
    /\ args_rolls \in SeqsUpTo(DriverTokens, MaxTokens)
    /\ n_tests = 1
    /\ i_spec = 1
    /\ dice_arr = <<>>
    /\ i_san = 1
    /\ pc = "args"
    /\ err = "none"
    /\ InitRollVars

NextEngine ==
    \/ TrialExplicit
    \/ DieExplicit
    \/ Roll
    \/ RollNReturn
    \/ Finish

Next ==
    \/ ProcessArgs
    \/ NextParse
    \/ Header
    \/ TrialFreq
    \/ DieFreq
    \/ NextEngine

Spec == Init /\ [][Next]_vars

-----------------------------------------------------------------------------
(* The roll engine alone: one explicit trial of one validated dice.        *)

Digit(n) == DIGITS[n + 1]

\* The command line that describes the configuration d.
LineOf(d) ==
    <<<<Digit(d.n_rolls), "d", Digit(d.n_faces)>>>>
    \o (IF d.n_rerolls = 0 THEN <<>>
        ELSE <<<<"r", Digit(IF d.n_rerolls < 0 THEN 0 ELSE d.n_rerolls)>>>>)
    \o (IF d.reroll_threshold = 0 THEN <<>> ELSE <<<<"t", Digit(d.reroll_threshold)>>>>)
    \o (IF d.n_lowest_dropped = 0 THEN <<>> ELSE <<<<"l", Digit(d.n_lowest_dropped)>>>>)
    \o (IF d.n_highest_dropped = 0 THEN <<>> ELSE <<<<"h", Digit(d.n_highest_dropped)>>>>)

\* Validated configurations without rerolls, for the drops.
DropConfigs ==
    {d \in [n_faces : 1..MaxFaces, n_rolls : 1..MaxRolls, n_rerolls : {0},
            reroll_threshold : {0}, n_lowest_dropped : 0..MaxDrop,
            n_highest_dropped : 0..MaxDrop] : Sanitize(d) = "none"}

\* Validated configurations without drops, for the rerolls.
RerollConfigs ==
    {d \in [n_faces : 1..MaxRerollFaces, n_rolls : 1..MaxRerollRolls,
            n_rerolls : (0 - 1)..MaxRerolls, reroll_threshold : 0..MaxThreshold,
            n_lowest_dropped : {0}, n_highest_dropped : {0}] : Sanitize(d) = "none"}

\* main at line 198, after "LineOf(d)" was parsed and validated.
InitEngine(d) ==
    /\ freqtest = FALSE
    /\ ntests = <<>>
    /\ args_rolls = LineOf(d)
    /\ n_tests = 1
    /\ i_spec = Len(LineOf(d)) + 1
    /\ dice_arr = <<d>>
    /\ i_san = 2
    /\ pc = "header"
    /\ err = "none"
    /\ InitRollVars

InitDrop == \E d \in DropConfigs : InitEngine(d)
InitReroll == \E d \in RerollConfigs : InitEngine(d)

NextTrial == Header \/ NextEngine

SpecDrop == InitDrop /\ [][NextTrial]_vars
SpecReroll == InitReroll /\ [][NextTrial]_vars

-----------------------------------------------------------------------------
(* Properties of the parser and the validator.                             *)

ParseDone == i_spec > Len(args_rolls)
ParseFailed == pc = "error" /\ i_spec <= Len(args_rolls)

\* Token j has been processed: it succeeded, or it is the one that raised.
Processed(j) == j < i_spec \/ (j = i_spec /\ ParseFailed)

\* A modifier token of the grammar: the tag, then digits.
IsSpecToken(tok, tag) == Len(tok) >= 2 /\ tok[1] = tag /\ IsDigit(Tail(tok))

NoDieBetween(k, j) == \A m \in (k + 1)..(j - 1) : ~Find(args_rolls[m], "d")

\* Token k is the first to carry the tag on the dice that token j > k applies to.
FirstOccurrence(k, j, tag) ==
    /\ k < j
    /\ IsSpecToken(args_rolls[k], tag)
    /\ NoDieBetween(k, j)
    /\ \A m \in 1..(k - 1) : ~(IsSpecToken(args_rolls[m], tag) /\ NoDieBetween(m, k))

\* The value a tag's field holds after the notation value v was given.
FieldAfter(tag, v) == IF tag = "r" /\ v = 0 THEN 0 - 1 ELSE v

\* C1: a second occurrence of a modifier tag (r, t, l or h) on the same dice
\* raises the duplicate-modifier error and leaves the field at the value the
\* first occurrence set, whatever that value was.
C1_DuplicateRejected ==
    \A j \in 1..Len(args_rolls) : \A k \in 1..Len(args_rolls) : \A tag \in Range(SPEC_ARR) :
        (Processed(j) /\ IsSpecToken(args_rolls[j], tag) /\ FirstOccurrence(k, j, tag))
            => /\ ParseFailed
               /\ i_spec = j
               /\ err = "DuplicateModifierError"
               /\ Get(dice_arr[Last], tag) = FieldAfter(tag, ToInt(Tail(args_rolls[k])))

\* C2: a shorthand token A, D or E met while the current dice has n_rolls # 1
\* raises the sequence error and leaves the dice untouched.
C2_ShorthandNeedsOneRoll ==
    [][(InParse /\ spec \in ShorthandTokens /\ Len(dice_arr) # 0 /\ dice_arr[Last].n_rolls # 1)
          => (pc' = "error" /\ err' = "SequenceError" /\ dice_arr' = dice_arr)]_vars

\* The command line of shorthand k on one die of F faces, and its explicit notation.
ShorthandLine(F, k) == <<<<"1", "d", F>>, <<INSTRCTN_ARR[k]>>>>
ExplicitLine(F, k) ==
    CASE k = 6 -> <<<<"2", "d", F>>, <<"l", "1">>>>
      [] k = 7 -> <<<<"2", "d", F>>, <<"h", "1">>>>
      [] k = 8 -> <<<<"3", "d", F>>, <<"l", "2">>>>
Expanded(F, k) ==
    [n_faces |-> ToInt(<<F>>), n_rolls |-> IF k = 8 THEN 3 ELSE 2,
     n_rerolls |-> 0, reroll_threshold |-> 0,
     n_lowest_dropped |-> CASE k = 6 -> 1 [] k = 7 -> 0 [] k = 8 -> 2,
     n_highest_dropped |-> IF k = 7 THEN 1 ELSE 0]

\* C7: "1dF A", "1dF D", "1dF E" parse without error to the very configuration
\* that "2dF l1", "2dF h1", "3dF l2" parse to, all six fields equal.
C7_ShorthandEquivalent ==
    \A F \in DieFaces : \A k \in {6, 7, 8} :
        (args_rolls = ShorthandLine(F, k) \/ args_rolls = ExplicitLine(F, k))
            => /\ ~ParseFailed
               /\ ParseDone => dice_arr = <<Expanded(F, k)>>

C7_Witness ==
    /\ args_rolls = ShorthandLine("3", 8)
    /\ ParseDone
    /\ dice_arr[1].n_rolls = 3
    /\ dice_arr[1].n_lowest_dropped = 2

\* What the data model requires of a configuration.
WellFormed(d) ==
    /\ d.n_faces >= 1
    /\ d.n_rolls > 0
    /\ d.reroll_threshold < d.n_faces
    /\ d.n_lowest_dropped + d.n_highest_dropped <= d.n_rolls

\* C10: a configuration that sanitize has accepted is well formed, and a parsed
\* configuration that is not well formed stops the run with a validation error
\* when the sanitize loop reaches it.
C10_ValidatedWellFormed ==
    \A i \in 1..Len(dice_arr) :
        (ParseDone /\ ~WellFormed(dice_arr[i]))
            => /\ i_san <= i
               /\ pc \in {"sanitize", "error"}
               /\ pc = "error" => err = "ValidationError"

C10_Witness ==
    /\ pc = "error"
    /\ err = "ValidationError"
    /\ i_san = 2
    /\ dice_arr[2].n_faces = 0

-----------------------------------------------------------------------------
(* Properties of the driver.                                               *)

InTrials == pc \in {"trial", "die", "roll", "drop", "done"}

\* The trial count the caller asked for: --ntests, or 1.
Requested == IF ntests # <<>> THEN ntests[1] ELSE 1

\* C3: when --freqtest is not given, every completed trial has printed one
\* row holding one total per dice, so a run that ends has printed exactly the N
\* rows asked for, N = 100000 included.
C3_ExplicitRows ==
    (~freqtest /\ InTrials)
        => /\ n_tests = Requested
           /\ Len(results) = i_test
           /\ \A k \in 1..Len(results) : Len(results[k]) = Len(dice_arr)
           /\ pc = "done" => Len(results) = Requested

\* roll_n has just been entered on self and nothing was drawn for it yet.
FreshRollN == pc = "roll" /\ rolls = <<>> /\ depth = 0

\* C5: in both arms every roll_n of every trial starts on an object equal to
\* the validated dice, reroll budget included, and no step of the trials
\* changes the validated dice.
C5_TrialsIsolated ==
    /\ [](FreshRollN => self = dice_arr[i_die])
    /\ [][InTrials => dice_arr' = dice_arr]_vars

\* The second explicit trial starts after the first one used up its budget.
C5_Witness ==
    /\ FreshRollN
    /\ branch = "explicit"
    /\ i_test = 1
    /\ dice_arr[i_die].n_rerolls = 1
    /\ self.n_rerolls = 1
    /\ x >= 1
    /\ x <= self.reroll_threshold

\* C6: a run that ends in an error has drawn nothing, and a draw happens only
\* after every token was parsed and every dice was accepted by sanitize.
C6_NoDrawBeforeError ==
    /\ err # "none" => ~drawn
    /\ pc = "error" => err # "none"
    /\ drawn => (ParseDone /\ i_san > Len(dice_arr) /\ err = "none")

\* The second of two dice fails validation after the first was accepted.
C6_Witness ==
    /\ pc = "error"
    /\ err = "ValidationError"
    /\ Len(dice_arr) = 2
    /\ i_san = 2
    /\ ~drawn

-----------------------------------------------------------------------------
(* Properties of the roll engine.                                          *)

\* C4: with a finite budget N > 0, a die whose draw is <= the threshold and
\* that was itself rolled again fewer than N times in this trial is rolled
\* again, whatever the other dice of the group used.
C4_BudgetPerDie ==
    [][(pc = "roll" /\ pc' # "error"
        /\ dice_arr[i_die].n_rerolls > 0
        /\ depth < dice_arr[i_die].n_rerolls
        /\ x' <= self.reroll_threshold)
          => depth' = depth + 1]_vars

RECURSIVE Insert(_, _)
Insert(s, v) ==
    IF Len(s) = 0 THEN <<v>>
    ELSE IF v <= s[1] THEN <<v>> \o s
    ELSE <<s[1]>> \o Insert(Tail(s), v)

RECURSIVE Sort(_)
Sort(s) == IF Len(s) = 0 THEN <<>> ELSE Insert(Sort(Tail(s)), s[1])

\* The sum of the sorted results without the first lo and the last hi of them.
SortedSliceSum(rs, lo, hi) == Sum(SubSeq(Sort(rs), lo + 1, Len(rs) - hi))

\* C8: roll_n is given n_rolls results and returns, without raising, the sum
\* of the sorted results without its first n_lowest_dropped and last
\* n_highest_dropped entries; [1,2,3,4] with one dropped at each end gives 5.
C8_DropSum ==
    [][pc = "drop"
          => /\ pc' # "error"
             /\ Len(rolls) = self.n_rolls
             /\ row' = Append(row, SortedSliceSum(rolls, self.n_lowest_dropped,
                                                     self.n_highest_dropped))
             /\ (rolls = <<1, 2, 3, 4>> /\ self.n_lowest_dropped = 1
                 /\ self.n_highest_dropped = 1) => row' = Append(row, 5)]_vars

\* Four dice were rolled, 4 last; one was dropped at each end and 2 + 3 returned.
C8_Witness ==
    /\ pc = "trial"
    /\ self.n_rolls = 4
    /\ self.n_lowest_dropped = 1
    /\ self.n_highest_dropped = 1
    /\ x = 4
    /\ rolls = <<2, 3>>
    /\ row = <<5>>

\* C9: every value dice.roll has returned to roll_n lies in 1..n_faces.
C9_RollInRange ==
    \A k \in 1..Len(rolls) : rolls[k] >= 1 /\ rolls[k] <= self.n_faces

\* A die was rolled again twice, used up the budget and returned a 1.
C9_Witness ==
    /\ dice_arr[1].n_rerolls = 2
    /\ self.n_rerolls = 0
    /\ rolls = <<1>>

-----------------------------------------------------------------------------
(* Further properties of the parser and the validator.                     *)

\* The dice that token j applies to: the number of die tokens up to j.
DiceOf(j) == Cardinality({m \in 1..j : Find(args_rolls[m], "d")})

\* A token the program takes for the modifier tag was applied to dice i.
Given(i, tag) ==
    \E j \in 1..Len(args_rolls) :
        DiceOf(j) = i /\ ~Find(args_rolls[j], "d") /\ Find(args_rolls[j], tag)

\* sanitize has run on dice i, and has accepted it.
Sanitized(i) == ParseDone /\ (i < i_san \/ (i = i_san /\ pc = "error"))
Accepted(i) == ParseDone /\ i < i_san

\* The requirements of sanitize other than the reroll pair.
OtherChecksPass(d) ==
    /\ d.n_rolls > 0
    /\ d.reroll_threshold < d.n_faces
    /\ d.n_lowest_dropped + d.n_highest_dropped <= d.n_rolls

\* C11: for a dice that meets the other requirements, sanitize accepts it
\* exactly when both an r and a t token were applied to it or neither was,
\* whatever values the tokens carried.
C11_RerollPair ==
    \A i \in 1..Len(dice_arr) :
        (Sanitized(i) /\ OtherChecksPass(dice_arr[i]))
            => (Accepted(i) <=> (Given(i, "r") <=> Given(i, "t")))

-----------------------------------------------------------------------------
(* One command line from the tokens to the end of its explicit trial.      *)

\* main at line 162, given the line of a dice with rerolls and no drops.
InitLine ==
    /\ freqtest = FALSE
    /\ ntests = <<>>
    /\ args_rolls \in {LineOf(d) : d \in RerollConfigs}
    /\ n_tests = 1
    /\ i_spec = 1
    /\ dice_arr = <<>>
    /\ i_san = 1
    /\ pc = "parse"
    /\ err = "none"
    /\ InitRollVars

NextLine == ParseDie \/ ParseSpec \/ SanitizeDie \/ NextTrial

SpecLine == InitLine /\ [][NextLine]_vars

\* The dice of the line was given the token r0.
UnlimitedLine ==
    \E j \in 1..Len(args_rolls) : j < i_spec /\ args_rolls[j] = <<"r", "0">>

\* C12: the token r0 stores the budget -1, and a dice with that budget and a
\* threshold t >= 1 never runs out of rerolls in a trial: its budget stays
\* negative however often it is decremented, every draw <= t is rolled again,
\* and no value dice.roll has returned is <= t.
C12_UnlimitedNeverExhausted ==
    /\ [](UnlimitedLine =>
            /\ dice_arr[1].n_rerolls = 0 - 1
            /\ (pc \in {"roll", "drop"} /\ self.reroll_threshold >= 1)
                 => /\ self.n_rerolls < 0
                    /\ \A k \in 1..Len(rolls) : rolls[k] > self.reroll_threshold)
    /\ [][(UnlimitedLine /\ pc = "roll" /\ x' <= self.reroll_threshold)
            => (depth' = depth + 1 /\ self'.n_rerolls = self.n_rerolls - 1
                /\ rolls' = rolls)]_vars

\* The second die of an r0 dice is returned after three rerolls in the trial.
C12_Witness ==
    /\ UnlimitedLine
    /\ pc = "roll"
    /\ self.n_rerolls <= 0 - 4
    /\ Len(rolls) = 2
    /\ rolls[2] > self.reroll_threshold
    /\ self.reroll_threshold >= 1

-----------------------------------------------------------------------------
(* Further properties of the driver.                                       *)

\* C13: when --freqtest and --ntests are both given, whatever the count and
\* the tokens, main raises the configuration-conflict error before it looks
\* at the first token.
C13_ConflictRejected ==
    (freqtest /\ ntests # <<>> /\ pc # "args")
        => /\ pc = "error"
           /\ err = "ConfigConflictError"
           /\ i_spec = 1
           /\ dice_arr = <<>>
           /\ ~drawn

\* --freqtest with --ntests 0 and a valid line of two tokens was rejected.
C13_Witness ==
    /\ freqtest
    /\ ntests = <<0>>
    /\ args_rolls = <<<<"d", "2">>, <<"A">>>>
    /\ err = "ConfigConflictError"

-----------------------------------------------------------------------------
(* The shorthand tokens on six-sided dice.                                 *)

SixTokens ==
    {<<"1", "d", "6">>, <<"2", "d", "6">>, <<"A">>, <<"D">>, <<"E">>,
     <<"l", "1">>, <<"x">>}

\* main at line 162, given up to MaxTokens of the tokens above.
InitSix ==
    /\ freqtest = FALSE
    /\ ntests = <<>>
    /\ args_rolls \in SeqsUpTo(SixTokens, MaxTokens)
    /\ n_tests = 1
    /\ i_spec = 1
    /\ dice_arr = <<>>
    /\ i_san = 1
    /\ pc = "parse"
    /\ err = "none"
    /\ InitRollVars

SpecSix == InitSix /\ [][NextParse]_vars

\* The line starts with the die token and the advantage shorthand.
StartsWithA(die) ==
    Len(args_rolls) >= 2 /\ args_rolls[1] = die /\ args_rolls[2] = <<"A">>

\* C14 as stated: on the tokens 1d6, A the shorthand fails with a sequence
\* error.
C14_AdvantageOnOneFails ==
    (StartsWithA(<<"1", "d", "6">>) /\ Processed(2))
        => (ParseFailed /\ i_spec = 2 /\ err = "SequenceError")

\* Token j is the last one processed so far.
LastProcessed(j) == (i_spec = j + 1 /\ ~ParseFailed) \/ (i_spec = j /\ ParseFailed)

\* C14 amended: on the tokens 1d6, A the shorthand is applied, because n_rolls
\* is 1 at that moment, and leaves 2 rolls of which the lowest is dropped; it
\* fails with a sequence error when n_rolls is not 1, as on the tokens 2d6, A,
\* and then changes nothing.
C14_AdvantageNeedsOneRoll ==
    /\ (StartsWithA(<<"1", "d", "6">>) /\ LastProcessed(2))
         => /\ i_spec = 3
            /\ dice_arr = <<[NoDice EXCEPT !.n_faces = 6, !.n_rolls = 2,
                                           !.n_lowest_dropped = 1]>>
    /\ (StartsWithA(<<"2", "d", "6">>) /\ Processed(2))
         => /\ ParseFailed /\ i_spec = 2 /\ err = "SequenceError"
            /\ dice_arr = <<[NoDice EXCEPT !.n_faces = 6, !.n_rolls = 2]>>

\* The line 1d6, A was parsed and accepted by sanitize.
C14_Witness ==
    /\ args_rolls = <<<<"1", "d", "6">>, <<"A">>>>
    /\ pc = "header"
    /\ dice_arr[1].n_rolls = 2
    /\ dice_arr[1].n_lowest_dropped = 1

-----------------------------------------------------------------------------
(* The notation grammar.                                                   *)

\* A die token: optional digits, d, digits.
IsDieToken(tok) ==
    \E k \in 1..Len(tok) :
        /\ tok[k] = "d"
        /\ (k = 1 \/ IsDigit(SubSeq(tok, 1, k - 1)))
        /\ IsDigit(SubSeq(tok, k + 1, Len(tok)))

IsModifierToken(tok) == \E tag \in Range(SPEC_ARR) : IsSpecToken(tok, tag)

IsShorthandToken(tok) == tok \in {<<"A">>, <<"D">>, <<"E">>}

Conforms(tok) == IsDieToken(tok) \/ IsModifierToken(tok) \/ IsShorthandToken(tok)

\* C15: a token that does not conform to the grammar is never accepted: it is
\* the token at which the parser stops, and once a dice is defined the error
\* is a format error.
C15_GrammarOnly ==
    \A j \in 1..Len(args_rolls) :
        (Processed(j) /\ ~Conforms(args_rolls[j]))
            => /\ ParseFailed
               /\ i_spec = j
               /\ DiceOf(j) >= 1 => err = "FormatError"

-----------------------------------------------------------------------------
(* The frame of a token.                                                   *)

DefaultModifiers(d) ==
    /\ d.n_rerolls = 0
    /\ d.reroll_threshold = 0
    /\ d.n_lowest_dropped = 0
    /\ d.n_highest_dropped = 0

\* C16: while the tokens are processed, an accepted die token appends exactly
\* one dice, with every modifier at its default, and leaves the earlier ones
\* as they were; every other token, accepted or not, leaves the number of
\* dice and every dice but the last one unchanged.
C16_OnlyLastMutated ==
    [][InParse =>
        IF IsDieToken(spec) /\ pc' # "error"
        THEN /\ Len(dice_arr') = Len(dice_arr) + 1
             /\ \A i \in 1..Len(dice_arr) : dice_arr'[i] = dice_arr[i]
             /\ DefaultModifiers(dice_arr'[Len(dice_arr')])
        ELSE /\ Len(dice_arr') = Len(dice_arr)
             /\ \A i \in 1..(Len(dice_arr) - 1) : dice_arr'[i] = dice_arr[i]]_vars

\* A modifier was applied to the second of two dice and not to the first.
C16_Witness ==
    /\ i_spec = 4
    /\ Len(dice_arr) = 2
    /\ DefaultModifiers(dice_arr[1])
    /\ dice_arr[2].n_lowest_dropped = 1


\* C17: a modifier token or a shorthand token processed while no dice is
\* defined raises the sequence error, and the list of dice stays empty.
C17_ModifierBeforeDie ==
    \A j \in 1..Len(args_rolls) :
        (/\ Processed(j)
         /\ DiceOf(j) = 0
         /\ IsModifierToken(args_rolls[j]) \/ IsShorthandToken(args_rolls[j]))
            => /\ ParseFailed
               /\ i_spec = j
               /\ err = "SequenceError"
               /\ dice_arr = <<>>

\* The shorthand E came before the die it was meant for.
C17_Witness ==
    /\ args_rolls = <<<<"E">>, <<"d", "2">>>>
    /\ err = "SequenceError"
    /\ dice_arr = <<>>

-----------------------------------------------------------------------------
(* Further properties of the roll engine.                                  *)

\* The budget and the threshold of the validated dice being rolled.
Budget == dice_arr[i_die].n_rerolls
Threshold == dice_arr[i_die].reroll_threshold

\* roll_n is running on the copy self.
InRollN == pc \in {"roll", "drop"}

\* C18: with a finite budget N > 0, dice.roll called on the fresh copy of a
\* trial rolls again at most N times: the budget left is N minus the rerolls
\* made, at N rerolls the next draw is returned whatever it is, and a
\* returned value <= t means that all N rerolls were used and the budget is 0.
C18_FiniteBudgetConsumed ==
    /\ []((InRollN /\ Budget > 0)
            => /\ Len(rolls) = 0 => (depth <= Budget /\ self.n_rerolls = Budget - depth)
               /\ (Len(rolls) >= 1 /\ rolls[1] <= Threshold) => self.n_rerolls = 0)
    /\ [][(pc = "roll" /\ Budget > 0 /\ Len(rolls) = 0 /\ depth = Budget)
            => (rolls' = <<x'>> /\ self' = self)]_vars

\* With a budget of 1 the only reroll gave a 1 again, which was returned.
C18_Witness ==
    /\ InRollN
    /\ Budget = 1
    /\ Threshold >= 1
    /\ self.n_rerolls = 0
    /\ rolls = <<1>>


\* C19: for a validated dice with a finite budget N >= 0, the budget left in
\* a trial stays within 0..N, and each reroll of any die of the group takes
\* exactly one from it, so that a trial makes at most N rerolls in all.
C19_BudgetWithinBounds ==
    /\ []((InRollN /\ Budget >= 0)
            => (self.n_rerolls >= 0 /\ self.n_rerolls <= Budget))
    /\ [][(pc = "roll" /\ Budget >= 0)
            => IF depth' = depth + 1
               THEN self'.n_rerolls = self.n_rerolls - 1
               ELSE self' = self]_vars

\* The second die of a group used the last reroll of a budget of 2.
C19_Witness ==
    /\ pc = "roll"
    /\ Budget = 2
    /\ Len(rolls) = 1
    /\ depth = 1
    /\ self.n_rerolls = 0


\* The number of results roll_n keeps for the dice d.
Kept(d) == d.n_rolls - d.n_lowest_dropped - d.n_highest_dropped

\* C20: for a validated dice, roll_n never takes the minimum or maximum of an
\* empty list nor removes from one; it sums exactly k = n_rolls -
\* n_lowest_dropped - n_highest_dropped results, and the total it returns
\* lies between k and k * n_faces.
C20_DropsNeverEmpty ==
    /\ err # "EmptyListError"
    /\ (pc \in {"trial", "done"} /\ Len(row) = 1)
         => /\ Len(rolls) = Kept(dice_arr[1])
            /\ row[1] = Sum(rolls)
            /\ row[1] >= Kept(dice_arr[1])
            /\ row[1] <= Kept(dice_arr[1]) * dice_arr[1].n_faces

\* Both dice of a 2d3 were dropped, one as lowest and one as highest.
C20_Witness ==
    /\ pc = "done"
    /\ dice_arr[1].n_rolls = 2
    /\ dice_arr[1].n_lowest_dropped = 1
    /\ dice_arr[1].n_highest_dropped = 1
    /\ rolls = <<>>
    /\ row = <<0>>

====
